---- MODULE Spec2Model ----
(***************************************************************************)
(* State-machine model of the asynchronous transcription job service:      *)
(* src/bytenite_service/src/services/transcription.py (TranscriptionService)*)
(* and the HTTP handlers of src/bytenite_service/src/main.py.              *)
(*                                                                         *)
(* Everything runs on one asyncio event loop, so a handler is atomic       *)
(* between two awaits that really suspend.  The only suspension points     *)
(* are queue.get() on an empty queue, the await of run_in_executor, and    *)
(* the await of the worker task in cleanup().  queue.put() on the          *)
(* unbounded asyncio.Queue never suspends and never raises.                *)
(***************************************************************************)
EXTENDS Integers, Sequences, FiniteSets, TLC

\* ------------------------------------------------------------------ bounds
MaxJobs == 2                 \* job ids (uuid4 values) ever issued

\* -------------------------------------------------------------- constants
max_file_size_mb == 100
BytesPerMb == 1048576        \* 1024 * 1024

QUEUED == "queued"
PROCESSING == "processing"
COMPLETED == "completed"
FAILED == "failed"
JobStatus == {QUEUED, PROCESSING, COMPLETED, FAILED}

None == "None"               \* Python None of an Optional[str] / Optional[datetime]
NoPath == <<>>               \* Python None of Optional[str] file_path
Now == "utcnow"              \* datetime.utcnow(): only set / unset is modelled

\* ----------------------------------------------------------------- inputs
JobIds == 1..MaxJobs
Users == {"u1"}
Filenames == {"A.WAV", "c.txt", ""}
AudioLens == {max_file_size_mb * BytesPerMb, max_file_size_mb * BytesPerMb + 1}
WriteOutcomes == {"ok", "open_fails", "write_fails"}
Texts == {" hello world "}
BackendErrors == {"Corrupted audio file"}

\* Path(filename).suffix.lower() on the filenames above
Suffix(filename) ==
  CASE filename = "A.WAV" -> ".WAV"
    [] filename = "c.txt" -> ".txt"
    [] OTHER -> ""
Lower(ext) == IF ext = ".WAV" THEN ".wav" ELSE ext
allowed_extensions == {".wav", ".mp3", ".m4a", ".flac", ".ogg"}

\* str.strip() on the backend texts above
Strip(text) == IF text = " hello world " THEN "hello world" ELSE text

\* the uuid4 of a create_job call that raised: it is never seen again
LostId == 0

\* upload_dir / f"{job_id}_{filename}"
FilePath(job_id, filename) == <<job_id, filename>>

VARIABLES
  jobs,               \* self.jobs: the keys of the dict, in insertion order
  heap,               \* the TranscriptionJob objects alive, by job id
  processing_queue,   \* self.processing_queue: FIFO of job ids
  files,              \* the files that exist under upload_dir
  nextId,             \* the next fresh uuid4
  whisper_model,      \* self.whisper_model: None or loaded
  worker_task,        \* self.worker_task: None | at_get | at_executor | done
  wjob,               \* the job object _transcribe_audio holds (0: none)
  cancel_requested,   \* worker_task.cancel() was called, not yet delivered
  backend,            \* the executor thread: idle | running | result | raised
  lifecycle,          \* new | initialized | init_failed | cleaning | cleaned
  resp                \* what the call returned, when the last step was a
                      \* facade / HTTP call (NoResp after a worker step)

vars == <<jobs, heap, processing_queue, files, nextId, whisper_model,
          worker_task, wjob, cancel_requested, backend, lifecycle, resp>>

\* --------------------------------------------------------------- helpers
Holds(seq, id) == \E i \in 1..Len(seq) : seq[i] = id
InStore(id) == Holds(jobs, id)
StoreIds == {jobs[i] : i \in 1..Len(jobs)}
RemoveId(seq, id) == SelectSeq(seq, LAMBDA x : x /= id)

\* mutant: user_id and filename passed in each other's place
TranscriptionJob_swapped(job_id, user_id, filename) ==
  [id |-> job_id, user_id |-> filename, filename |-> user_id,
   status |-> QUEUED, created_at |-> Now, started_at |-> None,
   completed_at |-> None, transcript |-> None, error |-> None,
   file_path |-> FilePath(job_id, filename)]

\* class TranscriptionJob, as create_job constructs it
TranscriptionJob(job_id, user_id, filename) ==
  [id |-> job_id, user_id |-> user_id, filename |-> filename,
   status |-> QUEUED, created_at |-> Now, started_at |-> None,
   completed_at |-> None, transcript |-> None, error |-> None,
   file_path |-> FilePath(job_id, filename)]

\* an object stays alive while the dict or the worker coroutine refers to it
Collect(h, keep) == [i \in (DOMAIN h) \cap keep |-> h[i]]

NoResp ==
  [op |-> "none", id |-> 0, user_id |-> "", filename |-> "",
   transcript |-> "", error |-> "",
   ret |-> "", code |-> 0, message |-> "", body |-> <<>>, log |-> "",
   failed_files |-> {}]
Resp(op, id, ret) == [NoResp EXCEPT !.op = op, !.id = id, !.ret = ret]

BackendIdle == [state |-> "idle", text |-> ""]
BackendRunning == [state |-> "running", text |-> ""]

Init ==
  /\ jobs = <<>>
  /\ heap = <<>>
  /\ processing_queue = <<>>
  /\ files = {}
  /\ nextId = 1
  /\ whisper_model = None
  /\ worker_task = None
  /\ wjob = 0
  /\ cancel_requested = FALSE
  /\ backend = BackendIdle
  /\ lifecycle = "new"
  /\ resp = NoResp

\* ------------------------------------------------------- Service Facade

\* mutant: the worker is created before the model is loaded
initialize_worker_first(load_ok) ==
  /\ lifecycle = "new"
  /\ worker_task' = "at_get"
  /\ IF load_ok
     THEN /\ whisper_model' = "loaded"
          /\ lifecycle' = "initialized"
          /\ resp' = Resp("initialize", 0, "ok")
     ELSE /\ lifecycle' = "init_failed"
          /\ resp' = Resp("initialize", 0, "raised")
          /\ UNCHANGED whisper_model
  /\ UNCHANGED <<jobs, heap, processing_queue, files, nextId, wjob,
                 cancel_requested, backend>>

\* TranscriptionService.initialize: mkdir, whisper.load_model, then
\* create_task(_process_jobs); a failing load_model re-raises before the
\* worker is created.
initialize(load_ok) ==
  /\ lifecycle = "new"
  /\ IF load_ok
     THEN /\ whisper_model' = "loaded"
          /\ worker_task' = "at_get"
          /\ lifecycle' = "initialized"
          /\ resp' = Resp("initialize", 0, "ok")
     ELSE /\ lifecycle' = "init_failed"
          /\ resp' = Resp("initialize", 0, "raised")
          /\ UNCHANGED <<whisper_model, worker_task>>
  /\ UNCHANGED <<jobs, heap, processing_queue, files, nextId, wjob,
                 cancel_requested, backend>>

\* mutant: the size check made after the file was written
create_job_too_large_after_write(user_id, filename) ==
  /\ files' = files \cup {FilePath(LostId, filename)}
  /\ resp' = [Resp("create_job", 0, "ValueError: File too large")
              EXCEPT !.user_id = user_id, !.filename = filename]
  /\ UNCHANGED <<jobs, heap, processing_queue, nextId>>

\* create_job, the size check failing: raise ValueError before anything
\* is written
create_job_too_large(user_id, filename) ==
  /\ resp' = [Resp("create_job", 0, "ValueError: File too large")
              EXCEPT !.user_id = user_id, !.filename = filename]
  /\ UNCHANGED <<jobs, heap, processing_queue, files, nextId>>

\* mutant: the except branch raises without unlinking the partial file
create_job_failed_no_unlink(user_id, filename, file_exists, unlink_ok) ==
  /\ files' = IF file_exists
              THEN files \cup {FilePath(LostId, filename)}
              ELSE files
  /\ resp' = [Resp("create_job", 0,
                   "ValueError: Failed to create transcription job")
              EXCEPT !.user_id = user_id, !.filename = filename]
  /\ UNCHANGED <<jobs, heap, processing_queue, nextId>>

\* create_job, the except branch: unlink the file if it exists, then raise
\* ValueError; a failing unlink raises out of the handler instead.
create_job_failed(user_id, filename, file_exists, unlink_ok) ==
  /\ files' = IF file_exists /\ ~unlink_ok
              THEN files \cup {FilePath(LostId, filename)}
              ELSE files
  /\ resp' = [Resp("create_job", 0,
                   IF file_exists /\ ~unlink_ok
                   THEN "OSError"
                   ELSE "ValueError: Failed to create transcription job")
              EXCEPT !.user_id = user_id, !.filename = filename]
  /\ UNCHANGED <<jobs, heap, processing_queue, nextId>>

\* mutant: the job is stored but its id is not put on the queue
create_job_commit_no_put(job_id, user_id, filename) ==
  LET job == TranscriptionJob(job_id, user_id, filename)
  IN /\ files' = files \cup {FilePath(job_id, filename)}
     /\ heap' = heap @@ (job_id :> job)
     /\ jobs' = Append(jobs, job_id)
     /\ nextId' = nextId + 1
     /\ resp' = [Resp("create_job", job_id, "job_id")
                 EXCEPT !.user_id = user_id, !.filename = filename]
     /\ UNCHANGED processing_queue

\* mutant: the id is put at the front of the queue
create_job_commit_put_first(job_id, user_id, filename) ==
  LET job == TranscriptionJob(job_id, user_id, filename)
  IN /\ files' = files \cup {FilePath(job_id, filename)}
     /\ heap' = heap @@ (job_id :> job)
     /\ jobs' = Append(jobs, job_id)
     /\ processing_queue' = <<job_id>> \o processing_queue
     /\ nextId' = nextId + 1
     /\ resp' = [Resp("create_job", job_id, "job_id")
                 EXCEPT !.user_id = user_id, !.filename = filename]

\* create_job, the file written: build the job, store it, put its id on
\* the queue, return the id
create_job_commit(job_id, user_id, filename) ==
  LET job == TranscriptionJob(job_id, user_id, filename)
  IN /\ files' = files \cup {FilePath(job_id, filename)}
     /\ heap' = heap @@ (job_id :> job)
     /\ jobs' = Append(jobs, job_id)
     /\ processing_queue' = Append(processing_queue, job_id)
     /\ nextId' = nextId + 1
     /\ resp' = [Resp("create_job", job_id, "job_id")
                 EXCEPT !.user_id = user_id, !.filename = filename]

\* mutant: create_job refuses to take a job when no worker is running
create_job_needs_worker(audio_len, user_id, filename, io, unlink_ok) ==
  /\ IF audio_len > max_file_size_mb * BytesPerMb
     THEN create_job_too_large(user_id, filename)
     ELSE /\ nextId <= MaxJobs
          /\ CASE worker_task \notin {"at_get", "at_executor"} ->
                    create_job_failed(user_id, filename, FALSE, unlink_ok)
               [] io = "ok" ->
                    create_job_commit(nextId, user_id, filename)
               [] io = "write_fails" ->
                    create_job_failed(user_id, filename, TRUE, unlink_ok)
               [] OTHER ->
                    create_job_failed(user_id, filename, FALSE, unlink_ok)
  /\ UNCHANGED <<whisper_model, worker_task, wjob, cancel_requested,
                 backend, lifecycle>>

\* TranscriptionService.create_job.  io is what open()/write() do:
\* "open_fails" leaves no file, "write_fails" leaves a partial file.
create_job(audio_len, user_id, filename, io, unlink_ok) ==
  /\ IF audio_len > max_file_size_mb * BytesPerMb
     THEN create_job_too_large(user_id, filename)
     ELSE /\ nextId <= MaxJobs
          /\ CASE io = "ok" ->
                    create_job_commit(nextId, user_id, filename)
               [] io = "write_fails" ->
                    create_job_failed(user_id, filename, TRUE, unlink_ok)
               [] OTHER ->
                    create_job_failed(user_id, filename, FALSE, unlink_ok)
  /\ UNCHANGED <<whisper_model, worker_task, wjob, cancel_requested,
                 backend, lifecycle>>

\* mutant: the backend call blocks the event loop, so the call waits for it
get_job_status_blocked(job_id) ==
  /\ backend.state /= "running"
  /\ resp' = IF InStore(job_id)
             THEN [Resp("get_job_status", job_id, heap[job_id].status)
                   EXCEPT !.user_id = heap[job_id].user_id,
                          !.filename = heap[job_id].filename,
                          !.transcript = heap[job_id].transcript,
                          !.error = heap[job_id].error]
             ELSE Resp("get_job_status", job_id, None)
  /\ UNCHANGED <<jobs, heap, processing_queue, files, nextId, whisper_model,
                 worker_task, wjob, cancel_requested, backend, lifecycle>>

\* TranscriptionService.get_job_status: self.jobs.get(job_id).  Of the job
\* object returned, resp keeps status (ret), user_id, filename, transcript
\* and error.
get_job_status(job_id) ==
  /\ resp' = IF InStore(job_id)
             THEN [Resp("get_job_status", job_id, heap[job_id].status)
                   EXCEPT !.user_id = heap[job_id].user_id,
                          !.filename = heap[job_id].filename,
                          !.transcript = heap[job_id].transcript,
                          !.error = heap[job_id].error]
             ELSE Resp("get_job_status", job_id, None)
  /\ UNCHANGED <<jobs, heap, processing_queue, files, nextId, whisper_model,
                 worker_task, wjob, cancel_requested, backend, lifecycle>>

\* mutant: the record is not removed from self.jobs
delete_job_keeps_record(job_id, unlink_ok) ==
  /\ IF ~InStore(job_id)
     THEN /\ resp' = Resp("delete_job", job_id, "False")
          /\ UNCHANGED files
     ELSE LET job == heap[job_id]
              exists == job.file_path /= NoPath /\ job.file_path \in files
          IN /\ files' = IF exists /\ unlink_ok
                         THEN files \ {job.file_path}
                         ELSE files
             /\ resp' = [Resp("delete_job", job_id, "True")
                         EXCEPT !.log = IF exists /\ ~unlink_ok
                                        THEN "Failed to delete file"
                                        ELSE ""]
  /\ UNCHANGED <<jobs, heap, processing_queue, nextId, whisper_model,
                 worker_task, wjob, cancel_requested, backend, lifecycle>>

\* mutant: the record is removed but its file is left on storage
delete_job_no_unlink(job_id, unlink_ok) ==
  /\ IF ~InStore(job_id)
     THEN /\ resp' = Resp("delete_job", job_id, "False")
          /\ UNCHANGED <<jobs, heap>>
     ELSE /\ jobs' = RemoveId(jobs, job_id)
          /\ heap' = Collect(heap, (StoreIds \ {job_id}) \cup {wjob})
          /\ resp' = Resp("delete_job", job_id, "True")
  /\ UNCHANGED <<files, processing_queue, nextId, whisper_model, worker_task,
                 wjob, cancel_requested, backend, lifecycle>>

\* mutant: deleting the job the worker is processing cancels its
\* _transcribe_audio, so the worker goes back to queue.get() at once
delete_job_frees_worker(job_id, unlink_ok) ==
  /\ IF ~InStore(job_id)
     THEN /\ resp' = Resp("delete_job", job_id, "False")
          /\ UNCHANGED <<jobs, heap, files, worker_task, wjob>>
     ELSE LET job == heap[job_id]
              exists == job.file_path /= NoPath /\ job.file_path \in files
              held == worker_task = "at_executor" /\ wjob = job_id
          IN /\ files' = IF exists /\ unlink_ok
                         THEN files \ {job.file_path}
                         ELSE files
             /\ jobs' = RemoveId(jobs, job_id)
             /\ heap' = Collect(heap, StoreIds \ {job_id})
             /\ worker_task' = IF held THEN "at_get" ELSE worker_task
             /\ wjob' = IF held THEN 0 ELSE wjob
             /\ resp' = [Resp("delete_job", job_id, "True")
                         EXCEPT !.log = IF exists /\ ~unlink_ok
                                        THEN "Failed to delete file"
                                        ELSE ""]
  /\ UNCHANGED <<processing_queue, nextId, whisper_model,
                 cancel_requested, backend, lifecycle>>

\* mutant: the unlink is not guarded, so its failure leaves delete_job
\* before the record is removed
delete_job_aborts_on_unlink_error(job_id, unlink_ok) ==
  /\ IF ~InStore(job_id)
     THEN /\ resp' = Resp("delete_job", job_id, "False")
          /\ UNCHANGED <<jobs, heap, files>>
     ELSE LET job == heap[job_id]
              exists == job.file_path /= NoPath /\ job.file_path \in files
          IN IF exists /\ ~unlink_ok
             THEN /\ resp' = [Resp("delete_job", job_id, "OSError")
                              EXCEPT !.log = "Failed to delete file"]
                  /\ UNCHANGED <<jobs, heap, files>>
             ELSE /\ files' = files \ {job.file_path}
                  /\ jobs' = RemoveId(jobs, job_id)
                  /\ heap' = Collect(heap, (StoreIds \ {job_id}) \cup {wjob})
                  /\ resp' = Resp("delete_job", job_id, "True")
  /\ UNCHANGED <<processing_queue, nextId, whisper_model, worker_task, wjob,
                 cancel_requested, backend, lifecycle>>

\* TranscriptionService.delete_job
delete_job(job_id, unlink_ok) ==
  /\ IF ~InStore(job_id)
     THEN /\ resp' = Resp("delete_job", job_id, "False")
          /\ UNCHANGED <<jobs, heap, files>>
     ELSE LET job == heap[job_id]
              exists == job.file_path /= NoPath /\ job.file_path \in files
          IN /\ files' = IF exists /\ unlink_ok
                         THEN files \ {job.file_path}
                         ELSE files
             /\ jobs' = RemoveId(jobs, job_id)
             /\ heap' = Collect(heap, (StoreIds \ {job_id}) \cup {wjob})
             /\ resp' = [Resp("delete_job", job_id, "True")
                         EXCEPT !.log = IF exists /\ ~unlink_ok
                                        THEN "Failed to delete file"
                                        ELSE ""]
  /\ UNCHANGED <<processing_queue, nextId, whisper_model, worker_task, wjob,
                 cancel_requested, backend, lifecycle>>

\* the summary dict list_jobs builds for one job
Summary(job) ==
  [id |-> job.id, user_id |-> job.user_id, status |-> job.status,
   created_at |-> job.created_at, filename |-> job.filename]

\* mutant: the summaries are returned newest first
list_jobs_newest_first ==
  /\ resp' = [Resp("list_jobs", 0, "list")
              EXCEPT !.body = [i \in 1..Len(jobs) |->
                                 Summary(heap[jobs[Len(jobs) + 1 - i]])]]
  /\ UNCHANGED <<jobs, heap, processing_queue, files, nextId, whisper_model,
                 worker_task, wjob, cancel_requested, backend, lifecycle>>

\* TranscriptionService.list_jobs: one summary per value of self.jobs, in
\* the dict's insertion order
list_jobs ==
  /\ resp' = [Resp("list_jobs", 0, "list")
              EXCEPT !.body = [i \in 1..Len(jobs) |-> Summary(heap[jobs[i]])]]
  /\ UNCHANGED <<jobs, heap, processing_queue, files, nextId, whisper_model,
                 worker_task, wjob, cancel_requested, backend, lifecycle>>

\* cleanup's file loop: the files of the stored jobs it unlinks, and those
\* whose unlink raises and is logged (failing: the jobs whose unlink raises)
CleanupTargets ==
  {id \in StoreIds : heap[id].file_path /= NoPath /\ heap[id].file_path \in files}
CleanupFailed(failing) == {heap[id].file_path : id \in CleanupTargets \cap failing}
CleanupUnlinked(failing) == {heap[id].file_path : id \in CleanupTargets \ failing}

\* TranscriptionService.cleanup, up to `await self.worker_task`; with no
\* worker task the whole of cleanup runs without suspending.
cleanup_start(failing) ==
  /\ lifecycle \in {"new", "initialized", "init_failed"}
  /\ IF worker_task /= None
     THEN /\ cancel_requested' = TRUE
          /\ lifecycle' = "cleaning"
          /\ resp' = Resp("cleanup", 0, "awaiting")
          /\ UNCHANGED files
     ELSE /\ lifecycle' = "cleaned"
          /\ files' = files \ CleanupUnlinked(failing)
          /\ resp' = [Resp("cleanup", 0, "ok")
                      EXCEPT !.failed_files = CleanupFailed(failing)]
          /\ UNCHANGED cancel_requested
  /\ UNCHANGED <<jobs, heap, processing_queue, nextId, whisper_model,
                 worker_task, wjob, backend>>

\* mutant: the first unlink that raises ends the file loop
cleanup_files_stops_on_error(failing) ==
  /\ lifecycle = "cleaning"
  /\ worker_task = "done"
  /\ LET reached == {id \in CleanupTargets :
                       \A f \in CleanupTargets \cap failing : id <= f}
     IN /\ files' = files \ {heap[id].file_path : id \in reached \ failing}
        /\ resp' = [Resp("cleanup", 0, "ok")
                    EXCEPT !.failed_files =
                             {heap[id].file_path : id \in reached \cap failing}]
  /\ lifecycle' = "cleaned"
  /\ UNCHANGED <<jobs, heap, processing_queue, nextId, whisper_model,
                 worker_task, wjob, cancel_requested, backend>>

\* TranscriptionService.cleanup, after the worker task has ended: unlink
\* the file of every job in the store, logging each unlink that raises.
cleanup_files(failing) ==
  /\ lifecycle = "cleaning"
  /\ worker_task = "done"
  /\ files' = files \ CleanupUnlinked(failing)
  /\ lifecycle' = "cleaned"
  /\ resp' = [Resp("cleanup", 0, "ok")
              EXCEPT !.failed_files = CleanupFailed(failing)]
  /\ UNCHANGED <<jobs, heap, processing_queue, nextId, whisper_model,
                 worker_task, wjob, cancel_requested, backend>>

\* ---------------------------------------------------------- Worker Loop

\* mutant: a failed job is put back to QUEUED for another attempt
transcribe_failed_requeues(job, message, unlink_ok) ==
  [job |-> [job EXCEPT !.status = QUEUED, !.error = message],
   files |-> files]

\* mutant: the failure is recorded with a fixed text, not str(e)
transcribe_failed_generic_error(job, message, unlink_ok) ==
  LET failed == [job EXCEPT !.status = FAILED, !.error = "Transcription failed",
                            !.completed_at = Now]
  IN IF failed.file_path /= NoPath /\ failed.file_path \in files /\ unlink_ok
     THEN [job |-> [failed EXCEPT !.file_path = NoPath],
           files |-> files \ {failed.file_path}]
     ELSE [job |-> failed, files |-> files]

\* mutant: file_path is cleared whether or not the unlink succeeded
transcribe_failed_clears_anyway(job, message, unlink_ok) ==
  LET failed == [job EXCEPT !.status = FAILED, !.error = message,
                            !.completed_at = Now]
  IN IF failed.file_path /= NoPath /\ failed.file_path \in files /\ unlink_ok
     THEN [job |-> [failed EXCEPT !.file_path = NoPath],
           files |-> files \ {failed.file_path}]
     ELSE [job |-> [failed EXCEPT !.file_path = NoPath], files |-> files]

\* the except-Exception branch of _transcribe_audio
transcribe_failed(job, message, unlink_ok) ==
  LET failed == [job EXCEPT !.status = FAILED, !.error = message,
                            !.completed_at = Now]
  IN IF failed.file_path /= NoPath /\ failed.file_path \in files /\ unlink_ok
     THEN [job |-> [failed EXCEPT !.file_path = NoPath],
           files |-> files \ {failed.file_path}]
     ELSE [job |-> failed, files |-> files]

\* mutant: the unlink after a successful transcription is not guarded, so
\* its failure falls into the except-Exception branch
transcribe_succeeded_unguarded(job, text, unlink_ok) ==
  LET completed == [job EXCEPT !.transcript = Strip(text),
                               !.status = COMPLETED, !.completed_at = Now]
  IN IF completed.file_path \in files /\ unlink_ok
     THEN [job |-> [completed EXCEPT !.file_path = NoPath],
           files |-> files \ {completed.file_path}]
     ELSE transcribe_failed(completed, "unlink failed", FALSE)

\* mutant: the file is unlinked after success but file_path is not cleared
transcribe_succeeded_no_clear(job, text, unlink_ok) ==
  LET completed == [job EXCEPT !.transcript = Strip(text),
                               !.status = COMPLETED, !.completed_at = Now]
  IN IF completed.file_path \in files /\ unlink_ok
     THEN [job |-> completed, files |-> files \ {completed.file_path}]
     ELSE [job |-> completed, files |-> files]

\* mutant: a failing unlink after success is recorded as the job's error
transcribe_succeeded_records_unlink_error(job, text, unlink_ok) ==
  LET completed == [job EXCEPT !.transcript = Strip(text),
                               !.status = COMPLETED, !.completed_at = Now]
  IN IF completed.file_path \in files /\ unlink_ok
     THEN [job |-> [completed EXCEPT !.file_path = NoPath],
           files |-> files \ {completed.file_path}]
     ELSE [job |-> [completed EXCEPT !.error = "unlink failed"],
           files |-> files]

\* the success branch of _transcribe_audio, after the executor returned
transcribe_succeeded(job, text, unlink_ok) ==
  LET completed == [job EXCEPT !.transcript = Strip(text),
                               !.status = COMPLETED, !.completed_at = Now]
  IN IF completed.file_path \in files /\ unlink_ok
     THEN [job |-> [completed EXCEPT !.file_path = NoPath],
           files |-> files \ {completed.file_path}]
     ELSE [job |-> completed, files |-> files]

\* mutant: _transcribe_audio is started without being awaited, so the loop
\* goes straight back to queue.get()
process_jobs_get_no_await ==
  /\ worker_task = "at_get"
  /\ ~cancel_requested
  /\ processing_queue /= <<>>
  /\ LET job_id == Head(processing_queue)
     IN /\ processing_queue' = Tail(processing_queue)
        /\ IF ~InStore(job_id) \/ heap[job_id].status /= QUEUED
           THEN UNCHANGED <<heap, wjob, backend>>
           ELSE LET started == [heap[job_id] EXCEPT !.status = PROCESSING,
                                                     !.started_at = Now]
                IN /\ heap' = [heap EXCEPT ![job_id] = started]
                   /\ wjob' = job_id
                   /\ backend' = BackendRunning
  /\ resp' = NoResp
  /\ UNCHANGED <<jobs, files, nextId, whisper_model, worker_task,
                 cancel_requested, lifecycle>>

\* _process_jobs: one pass of the loop from queue.get() up to the await of
\* run_in_executor inside _transcribe_audio (or back to queue.get()).
process_jobs_get ==
  /\ worker_task = "at_get"
  /\ ~cancel_requested
  /\ processing_queue /= <<>>
  /\ LET job_id == Head(processing_queue)
     IN /\ processing_queue' = Tail(processing_queue)
        /\ IF ~InStore(job_id) \/ heap[job_id].status /= QUEUED
           THEN UNCHANGED <<heap, worker_task, wjob, backend>>
           ELSE LET started == [heap[job_id] EXCEPT !.status = PROCESSING,
                                                     !.started_at = Now]
                IN IF started.file_path = NoPath \/ started.file_path \notin files
                   THEN /\ heap' = [heap EXCEPT ![job_id] =
                                      transcribe_failed(started,
                                        "Audio file not found", TRUE).job]
                        /\ UNCHANGED <<worker_task, wjob, backend>>
                   ELSE /\ heap' = [heap EXCEPT ![job_id] = started]
                        /\ worker_task' = "at_executor"
                        /\ wjob' = job_id
                        /\ backend' = BackendRunning
  /\ resp' = NoResp
  /\ UNCHANGED <<jobs, files, nextId, whisper_model, cancel_requested,
                 lifecycle>>

\* mutant: an exception raised in the executor thread ends the worker task
\* instead of being handed to _transcribe_audio
transcribe_with_whisper_kills_worker(ok, text) ==
  /\ backend.state = "running"
  /\ backend' = IF worker_task = "done" \/ ~ok
                THEN BackendIdle
                ELSE [state |-> "result", text |-> text]
  /\ worker_task' = IF ok THEN worker_task ELSE "done"
  /\ resp' = NoResp
  /\ UNCHANGED <<jobs, heap, processing_queue, files, nextId, whisper_model,
                 wjob, cancel_requested, lifecycle>>

\* _transcribe_with_whisper in the executor thread: returns result["text"]
\* or raises.  After the worker was cancelled the result is dropped.
transcribe_with_whisper(ok, text) ==
  /\ backend.state = "running"
  /\ backend' = IF worker_task = "done"
                THEN BackendIdle
                ELSE [state |-> IF ok THEN "result" ELSE "raised", text |-> text]
  /\ resp' = NoResp
  /\ UNCHANGED <<jobs, heap, processing_queue, files, nextId, whisper_model,
                 worker_task, wjob, cancel_requested, lifecycle>>

\* mutant: a backend failure escapes the loop and ends the worker task
transcribe_audio_resume_stops(unlink_ok) ==
  /\ worker_task = "at_executor"
  /\ ~cancel_requested
  /\ backend.state \in {"result", "raised"}
  /\ LET out == IF backend.state = "result"
                THEN transcribe_succeeded(heap[wjob], backend.text, unlink_ok)
                ELSE transcribe_failed(heap[wjob], backend.text, unlink_ok)
     IN /\ heap' = Collect([heap EXCEPT ![wjob] = out.job], StoreIds)
        /\ files' = out.files
  /\ worker_task' = IF backend.state = "raised" THEN "done" ELSE "at_get"
  /\ wjob' = 0
  /\ backend' = BackendIdle
  /\ resp' = NoResp
  /\ UNCHANGED <<jobs, processing_queue, nextId, whisper_model,
                 cancel_requested, lifecycle>>

\* mutant: the result is written through the store, so the record of a
\* job deleted meanwhile is put back
transcribe_audio_resume_restores(unlink_ok) ==
  /\ worker_task = "at_executor"
  /\ ~cancel_requested
  /\ backend.state \in {"result", "raised"}
  /\ LET out == IF backend.state = "result"
                THEN transcribe_succeeded(heap[wjob], backend.text, unlink_ok)
                ELSE transcribe_failed(heap[wjob], backend.text, unlink_ok)
     IN /\ heap' = [heap EXCEPT ![wjob] = out.job]
        /\ files' = out.files
  /\ jobs' = IF InStore(wjob) THEN jobs ELSE Append(jobs, wjob)
  /\ worker_task' = "at_get"
  /\ wjob' = 0
  /\ backend' = BackendIdle
  /\ resp' = NoResp
  /\ UNCHANGED <<processing_queue, nextId, whisper_model,
                 cancel_requested, lifecycle>>

\* mutant: the worker removes the record of the job it has finished
transcribe_audio_resume_evicts(unlink_ok) ==
  /\ worker_task = "at_executor"
  /\ ~cancel_requested
  /\ backend.state \in {"result", "raised"}
  /\ LET out == IF backend.state = "result"
                THEN transcribe_succeeded(heap[wjob], backend.text, unlink_ok)
                ELSE transcribe_failed(heap[wjob], backend.text, unlink_ok)
     IN /\ heap' = Collect(heap, StoreIds \ {wjob})
        /\ files' = out.files
  /\ jobs' = RemoveId(jobs, wjob)
  /\ worker_task' = "at_get"
  /\ wjob' = 0
  /\ backend' = BackendIdle
  /\ resp' = NoResp
  /\ UNCHANGED <<processing_queue, nextId, whisper_model,
                 cancel_requested, lifecycle>>

\* mutant: after a backend failure the same job is handed to the backend
\* once more
transcribe_audio_resume_retries(unlink_ok) ==
  /\ worker_task = "at_executor"
  /\ ~cancel_requested
  /\ backend.state \in {"result", "raised"}
  /\ IF backend.state = "raised"
     THEN /\ backend' = BackendRunning
          /\ UNCHANGED <<heap, files, worker_task, wjob>>
     ELSE /\ LET out == transcribe_succeeded(heap[wjob], backend.text, unlink_ok)
             IN /\ heap' = Collect([heap EXCEPT ![wjob] = out.job], StoreIds)
                /\ files' = out.files
          /\ worker_task' = "at_get"
          /\ wjob' = 0
          /\ backend' = BackendIdle
  /\ resp' = NoResp
  /\ UNCHANGED <<jobs, processing_queue, nextId, whisper_model,
                 cancel_requested, lifecycle>>

\* _transcribe_audio resumed with the executor's outcome
transcribe_audio_resume(unlink_ok) ==
  /\ worker_task = "at_executor"
  /\ ~cancel_requested
  /\ backend.state \in {"result", "raised"}
  /\ LET out == IF backend.state = "result"
                THEN transcribe_succeeded(heap[wjob], backend.text, unlink_ok)
                ELSE transcribe_failed(heap[wjob], backend.text, unlink_ok)
     IN /\ heap' = Collect([heap EXCEPT ![wjob] = out.job], StoreIds)
        /\ files' = out.files
  /\ worker_task' = "at_get"
  /\ wjob' = 0
  /\ backend' = BackendIdle
  /\ resp' = NoResp
  /\ UNCHANGED <<jobs, processing_queue, nextId, whisper_model,
                 cancel_requested, lifecycle>>

\* mutant: the CancelledError is caught by _transcribe_audio's except
\* branch like any failure, before the loop ends
process_jobs_cancelled_marks_failed ==
  /\ worker_task \in {"at_get", "at_executor"}
  /\ cancel_requested
  /\ worker_task' = "done"
  /\ cancel_requested' = FALSE
  /\ wjob' = 0
  /\ heap' = IF worker_task = "at_executor" /\ InStore(wjob)
             THEN Collect([heap EXCEPT ![wjob] =
                             transcribe_failed(heap[wjob], "", FALSE).job],
                          StoreIds)
             ELSE Collect(heap, StoreIds)
  /\ backend' = IF backend.state = "running" THEN backend ELSE BackendIdle
  /\ resp' = NoResp
  /\ UNCHANGED <<jobs, processing_queue, files, nextId, whisper_model,
                 lifecycle>>

\* CancelledError delivered at the worker's suspension point: it is not an
\* Exception, so _transcribe_audio does not catch it and _process_jobs breaks.
process_jobs_cancelled ==
  /\ worker_task \in {"at_get", "at_executor"}
  /\ cancel_requested
  /\ worker_task' = "done"
  /\ cancel_requested' = FALSE
  /\ wjob' = 0
  /\ heap' = Collect(heap, StoreIds)
  /\ backend' = IF backend.state = "running" THEN backend ELSE BackendIdle
  /\ resp' = NoResp
  /\ UNCHANGED <<jobs, processing_queue, files, nextId, whisper_model,
                 lifecycle>>

\* -------------------------------------------------------- HTTP boundary

\* POST /transcribe
transcribe_audio(filename, audio_len, user_id, io, unlink_ok) ==
  /\ lifecycle = "initialized"
  /\ IF filename = "" \/ Lower(Suffix(filename)) \notin allowed_extensions
     THEN /\ resp' = [Resp("POST /transcribe", 0, "HTTPException")
                      EXCEPT !.code = 400, !.user_id = user_id,
                             !.filename = filename]
          /\ UNCHANGED <<jobs, heap, processing_queue, files, nextId,
                         whisper_model, worker_task, wjob, cancel_requested,
                         backend, lifecycle>>
     ELSE create_job(audio_len, user_id, filename, io, unlink_ok)

\* the message of a JobResponse, by status
StatusMessage(status) ==
  CASE status = COMPLETED -> "Transcription completed successfully"
    [] status = FAILED -> "Transcription failed"
    [] status = PROCESSING -> "Transcription in progress"
    [] OTHER -> "Job queued for processing"

\* mutant: the HTTPException is not re-raised as it is, so the generic
\* handler turns the 404 into a 500
http_get_job_status_500(job_id) ==
  /\ lifecycle = "initialized"
  /\ resp' = IF ~InStore(job_id)
             THEN [Resp("GET /job/{job_id}/status", job_id, "HTTPException")
                   EXCEPT !.code = 500,
                          !.message = "Failed to get job status: 404: Job not found"]
             ELSE LET job == heap[job_id]
                  IN [Resp("GET /job/{job_id}/status", job_id, job.status)
                      EXCEPT !.code = 200,
                             !.transcript = IF job.status = COMPLETED
                                            THEN job.transcript ELSE None,
                             !.error = IF job.status = FAILED
                                       THEN job.error ELSE None,
                             !.message = StatusMessage(job.status)]
  /\ UNCHANGED <<jobs, heap, processing_queue, files, nextId, whisper_model,
                 worker_task, wjob, cancel_requested, backend, lifecycle>>

\* GET /job/{job_id}/status: the service's get_job_status, None mapped to
\* HTTPException(404), a job to a JobResponse.  The service call cannot
\* raise, so the 500 branch is never taken.
http_get_job_status(job_id) ==
  /\ lifecycle = "initialized"
  /\ resp' = IF ~InStore(job_id)
             THEN [Resp("GET /job/{job_id}/status", job_id, "HTTPException")
                   EXCEPT !.code = 404, !.message = "Job not found"]
             ELSE LET job == heap[job_id]
                  IN [Resp("GET /job/{job_id}/status", job_id, job.status)
                      EXCEPT !.code = 200,
                             !.transcript = IF job.status = COMPLETED
                                            THEN job.transcript ELSE None,
                             !.error = IF job.status = FAILED
                                       THEN job.error ELSE None,
                             !.message = StatusMessage(job.status)]
  /\ UNCHANGED <<jobs, heap, processing_queue, files, nextId, whisper_model,
                 worker_task, wjob, cancel_requested, backend, lifecycle>>

\* DELETE /job/{job_id}: the service's delete_job, False mapped to
\* HTTPException(404), True to the success message.
http_delete_job(job_id, unlink_ok) ==
  /\ lifecycle = "initialized"
  /\ IF ~InStore(job_id)
     THEN /\ resp' = [Resp("DELETE /job/{job_id}", job_id, "HTTPException")
                      EXCEPT !.code = 404, !.message = "Job not found"]
          /\ UNCHANGED <<jobs, heap, files>>
     ELSE LET job == heap[job_id]
              exists == job.file_path /= NoPath /\ job.file_path \in files
          IN /\ files' = IF exists /\ unlink_ok
                         THEN files \ {job.file_path}
                         ELSE files
             /\ jobs' = RemoveId(jobs, job_id)
             /\ heap' = Collect(heap, (StoreIds \ {job_id}) \cup {wjob})
             /\ resp' = [Resp("DELETE /job/{job_id}", job_id, "ok")
                         EXCEPT !.code = 200,
                                !.message = "Job deleted successfully",
                                !.log = IF exists /\ ~unlink_ok
                                        THEN "Failed to delete file"
                                        ELSE ""]
  /\ UNCHANGED <<processing_queue, nextId, whisper_model, worker_task, wjob,
                 cancel_requested, backend, lifecycle>>

\* ------------------------------------------------------------------ Next
DirectNames == {"A.WAV"}

Initialize == \E load_ok \in BOOLEAN : initialize(load_ok)
CreateJob ==
  \E audio_len \in AudioLens, user_id \in Users, filename \in DirectNames,
     io \in WriteOutcomes, unlink_ok \in BOOLEAN :
       create_job(audio_len, user_id, filename, io, unlink_ok)
HttpTranscribe ==
  \E filename \in Filenames, audio_len \in AudioLens, user_id \in Users,
     io \in WriteOutcomes, unlink_ok \in BOOLEAN :
       transcribe_audio(filename, audio_len, user_id, io, unlink_ok)
GetJobStatus == \E job_id \in JobIds : get_job_status(job_id)
DeleteJob == \E job_id \in JobIds, unlink_ok \in BOOLEAN : delete_job(job_id, unlink_ok)
ListJobs == list_jobs
CleanupStart == \E failing \in SUBSET JobIds : cleanup_start(failing)
CleanupFiles == \E failing \in SUBSET JobIds : cleanup_files(failing)
HttpGetJobStatus == \E job_id \in JobIds : http_get_job_status(job_id)
HttpDeleteJob ==
  \E job_id \in JobIds, unlink_ok \in BOOLEAN : http_delete_job(job_id, unlink_ok)
WorkerGet == process_jobs_get
BackendReturn ==
  \/ \E text \in Texts : transcribe_with_whisper(TRUE, text)
  \/ \E text \in BackendErrors : transcribe_with_whisper(FALSE, text)
WorkerResume == \E unlink_ok \in BOOLEAN : transcribe_audio_resume(unlink_ok)
WorkerCancelled == process_jobs_cancelled

Next ==
  \/ Initialize
  \/ CreateJob
  \/ HttpTranscribe
  \/ GetJobStatus
  \/ DeleteJob
  \/ ListJobs
  \/ HttpGetJobStatus
  \/ HttpDeleteJob
  \/ CleanupStart
  \/ CleanupFiles
  \/ WorkerGet
  \/ BackendReturn
  \/ WorkerResume
  \/ WorkerCancelled

Spec == Init /\ [][Next]_vars

\* The event loop runs every ready task and every executor call returns:
\* weak fairness of the worker's steps and of the backend's return.  The
\* callers (submit, delete, shutdown) are under no obligation.
FairSpec ==
  /\ Spec
  /\ WF_vars(WorkerGet)
  /\ WF_vars(BackendReturn)
  /\ WF_vars(WorkerResume)
  /\ WF_vars(WorkerCancelled)

\* ---------------------------------------------------------------- claims
Terminal(id) == heap[id].status \in {COMPLETED, FAILED}

Rank(status) ==
  CASE status = QUEUED -> 0
    [] status = PROCESSING -> 1
    [] OTHER -> 2
Forward(before, after) == before = after \/ Rank(before) < Rank(after)
Issued(id) == id < nextId
PathOf(id) == FilePath(id, heap[id].filename)
QueueIds == {processing_queue[i] : i \in 1..Len(processing_queue)}

\* C1: the status of a job id only moves forward, QUEUED -> PROCESSING ->
\* {COMPLETED | FAILED}: no step takes a job in the store to an earlier
\* status or from COMPLETED to FAILED or back, and an id that has left the
\* store never shows a status again.
C1_StatusMovesForward ==
  [][\A id \in JobIds :
       /\ (InStore(id) /\ InStore(id)')
            => Forward(heap[id].status, heap'[id].status)
       /\ (Issued(id) /\ ~InStore(id)) => ~InStore(id)']_vars

\* C1 witness: one job has gone all the way to COMPLETED, another to FAILED.
C1_Witness ==
  \E a, b \in StoreIds :
    heap[a].status = COMPLETED /\ heap[b].status = FAILED

\* C2 as stated: every accepted job that is not deleted eventually reaches
\* COMPLETED or FAILED, given a backend that returns and a worker (one that
\* initialize has started) that is scheduled fairly.
C2_EveryJobFinishes ==
  \A id \in JobIds :
    (InStore(id) /\ worker_task /= None) ~> (~InStore(id) \/ Terminal(id))

\* C2 amended: every accepted job eventually reaches COMPLETED or FAILED,
\* or is deleted, as long as the service has been initialized and has not
\* been shut down.
C2_EveryJobFinishesWhileServing ==
  \A id \in JobIds :
    (InStore(id) /\ lifecycle = "initialized")
      ~> (~InStore(id) \/ Terminal(id) \/ lifecycle /= "initialized")

\* C2 witness: with the service running, one job has finished and a later
\* one is still waiting its turn.
C2_Witness ==
  /\ lifecycle = "initialized"
  /\ \E a, b \in StoreIds :
       Terminal(a) /\ heap[b].status = QUEUED /\ a < b

\* C3: for every job in the store, COMPLETED has a transcript and no
\* error, FAILED has an error and no transcript, QUEUED and PROCESSING
\* have neither.
C3_ResultMatchesStatus ==
  \A id \in StoreIds :
    LET job == heap[id]
    IN /\ job.status = COMPLETED => job.transcript /= None /\ job.error = None
       /\ job.status = FAILED => job.error /= None /\ job.transcript = None
       /\ job.status \in {QUEUED, PROCESSING}
            => job.transcript = None /\ job.error = None

\* C3 witness: the store holds a COMPLETED job whose file deletion failed
\* and a FAILED job.
C3_Witness ==
  \E a, b \in StoreIds :
    /\ heap[a].status = COMPLETED /\ heap[a].file_path /= NoPath
    /\ heap[b].status = FAILED /\ heap[b].error = "Corrupted audio file"

\* C4 as stated: for every job in the store, file_path is set if and only
\* if the job's backing file exists on storage.
C4_FilePathIffFileExists ==
  \A id \in StoreIds : (heap[id].file_path /= NoPath) <=> (PathOf(id) \in files)

\* C5: a step stores a record exactly when it puts that record's id on the
\* queue, the id is fresh (never stored or enqueued before), and the queue
\* only ever holds ids that were issued.
C5_PutStep ==
  Len(processing_queue') > Len(processing_queue)
    => \E id \in JobIds :
         /\ processing_queue' = Append(processing_queue, id)
         /\ ~Issued(id) /\ Issued(id)'
         /\ ~InStore(id) /\ InStore(id)'
C5_StoreStep ==
  \A id \in JobIds :
    (~InStore(id) /\ InStore(id)')
      => /\ processing_queue' = Append(processing_queue, id)
         /\ ~Issued(id) /\ Issued(id)'
C5_StoredIffEnqueuedOnce ==
  [][/\ C5_PutStep
     /\ C5_StoreStep
     /\ \A id \in JobIds : ~Issued(id) => id \notin QueueIds \cup StoreIds]_vars

\* C5 witness: create_job has returned an id that is in the store and on
\* the queue, behind an earlier one.
C5_Witness ==
  /\ resp.op = "create_job" /\ resp.ret = "job_id"
  /\ InStore(resp.id)
  /\ Len(processing_queue) = 2 /\ processing_queue[2] = resp.id

\* C6: a submission rejected by validation (too large in create_job, no
\* file name or an unsupported extension in POST /transcribe) leaves the
\* job store, the queue and the upload storage as they were.
RejectedByValidation(r) ==
  \/ r.op = "create_job" /\ r.ret = "ValueError: File too large"
  \/ r.op = "POST /transcribe" /\ r.code = 400
C6_RejectionChangesNothing ==
  [][RejectedByValidation(resp')
       => UNCHANGED <<jobs, heap, processing_queue, files, nextId>>]_vars

\* C6 witness: an oversized submission was rejected with a job in the store.
C6_Witness ==
  /\ resp.op = "create_job" /\ resp.ret = "ValueError: File too large"
  /\ jobs /= <<>>

\* C7: the get_job_status call that directly follows a successful
\* create_job finds the job QUEUED with the submitted user_id and filename.
C7_QueuedRightAfterSubmit ==
  [][(/\ resp.op = "create_job" /\ resp.ret = "job_id"
      /\ resp'.op = "get_job_status" /\ resp'.id = resp.id)
       => /\ resp'.ret = QUEUED
          /\ resp'.user_id = resp.user_id
          /\ resp'.filename = resp.filename]_vars

\* C7 witness: get_job_status has returned QUEUED for a job the running
\* worker has not picked up yet.
C7_Witness ==
  /\ resp.op = "get_job_status" /\ resp.ret = QUEUED
  /\ worker_task = "at_get" /\ ~cancel_requested
  /\ processing_queue /= <<>> /\ Head(processing_queue) = resp.id

\* C8 as stated: after any failing create_job, no file written by that
\* call remains on storage.
SubmitFailed(r) == r.op = "create_job" /\ r.ret /= "job_id"
C8_NoFileAfterFailedSubmit ==
  [][SubmitFailed(resp') => files' \subseteq files]_vars

\* C8 amended: a create_job that fails after the file was written deletes
\* the file before it raises ValueError; only when that deletion itself
\* fails does the file stay, and then the deletion's error is what surfaces.
C8_NoFileAfterFailedSubmitUnlessUnlinkFails ==
  [][SubmitFailed(resp')
       => \/ resp'.ret /= "OSError" /\ files' = files
          \/ /\ resp'.ret = "OSError"
             /\ files' = files \cup {FilePath(LostId, resp'.filename)}]_vars

\* C8 witness: create_job has raised its ValueError after a failed write,
\* with other jobs' files on storage.
C8_Witness ==
  /\ resp.op = "create_job"
  /\ resp.ret = "ValueError: Failed to create transcription job"
  /\ files /= {}

\* C9: delete_job on an id in the store returns True and removes the
\* record; on any other id, a deleted one included, it returns False and
\* changes neither the store, the queue nor the storage; a deleted id never
\* comes back into the store.
C9_DeleteIdempotent ==
  [][/\ resp'.op = "delete_job"
          => IF Holds(jobs, resp'.id)
             THEN resp'.ret = "True" /\ ~Holds(jobs', resp'.id)
             ELSE /\ resp'.ret = "False"
                  /\ UNCHANGED <<jobs, heap, processing_queue, files>>
     /\ \A id \in JobIds : (Issued(id) /\ ~InStore(id)) => ~InStore(id)']_vars

\* C9 witness: a second delete_job of an id returned False while the file
\* the first one failed to delete is still on storage.
C9_Witness ==
  /\ resp.op = "delete_job" /\ resp.ret = "False"
  /\ Issued(resp.id)
  /\ \E filename \in Filenames : FilePath(resp.id, filename) \in files

\* C10, its parts.  A step that deletes a QUEUED job:
DeletesQueued(id) ==
  InStore(id) /\ heap[id].status = QUEUED /\ ~InStore(id)'
\* the id stays not-found and its file never comes back
C10_StaysGone ==
  \A id \in JobIds :
    (Issued(id) /\ ~InStore(id))
      => /\ ~InStore(id)'
         /\ \A filename \in Filenames :
              FilePath(id, filename) \notin files
                => FilePath(id, filename) \notin files'
\* the worker taking a stale id off the queue skips it: no backend call,
\* no record created or changed, and it is back at queue.get()
C10_StaleIdSkipped ==
  (/\ Len(processing_queue') < Len(processing_queue)
   /\ ~InStore(Head(processing_queue)))
    => /\ processing_queue' = Tail(processing_queue)
       /\ worker_task' = "at_get"
       /\ UNCHANGED <<jobs, heap, files, backend, wjob>>

\* C10 as stated: once a QUEUED job is deleted its id is not-found and its
\* backing file does not exist, in every later state, and the worker skips
\* the stale id.
C10_DeletedQueuedJobIsGone ==
  [][/\ \A id \in JobIds : DeletesQueued(id) => PathOf(id) \notin files'
     /\ C10_StaysGone
     /\ C10_StaleIdSkipped]_vars

\* C10 amended: as stated, except that the backing file is gone only if
\* its deletion succeeded; when the deletion fails, delete_job logs a
\* warning and the file stays on storage.
C10_DeletedQueuedJobIsGoneUnlessUnlinkFails ==
  [][/\ \A id \in JobIds :
          DeletesQueued(id)
            => \/ PathOf(id) \notin files' /\ resp'.log = ""
               \/ /\ PathOf(id) \in files'
                  /\ resp'.log = "Failed to delete file"
     /\ C10_StaysGone
     /\ C10_StaleIdSkipped]_vars

\* C10 witness: the running worker is about to take the id of a job that
\* was deleted while QUEUED, its file gone, with another id behind it.
C10_Witness ==
  /\ worker_task = "at_get" /\ ~cancel_requested
  /\ Len(processing_queue) = 2
  /\ ~InStore(processing_queue[1]) /\ InStore(processing_queue[2])
  /\ \A filename \in Filenames :
       FilePath(processing_queue[1], filename) \notin files

\* C11, its parts.  A step that deletes a PROCESSING job leaves the worker,
\* its pending cancellation and the executor call as they were:
C11_DeleteLeavesCallRunning ==
  \A id \in JobIds :
    (InStore(id) /\ heap[id].status = PROCESSING /\ ~InStore(id)')
      => UNCHANGED <<worker_task, wjob, cancel_requested, backend,
                     processing_queue>>
\* the worker resuming with the outcome of a call whose job was deleted
\* writes to an object the store no longer holds: the store and every
\* record in it stay as they were and the object is dropped
C11_ResultWriteIsNoOp ==
  (worker_task = "at_executor" /\ worker_task' = "at_get" /\ ~InStore(wjob))
    => /\ jobs' = jobs
       /\ \A id \in StoreIds : heap'[id] = heap[id]
       /\ wjob \notin DOMAIN heap'

\* C11: deleting a PROCESSING job does not cancel the in-flight backend
\* call; when the call returns, writing its result changes neither the
\* store nor the record of any other job, and the deleted id stays
\* not-found forever.
C11_DeleteDuringProcessing ==
  [][/\ C11_DeleteLeavesCallRunning
     /\ C11_ResultWriteIsNoOp
     /\ \A id \in JobIds : (Issued(id) /\ ~InStore(id)) => ~InStore(id)']_vars

\* C11 witness: the backend call of a job deleted while PROCESSING has
\* returned its text and the worker is about to write it, with another job
\* in the store.
C11_Witness ==
  /\ worker_task = "at_executor" /\ ~cancel_requested
  /\ backend.state = "result"
  /\ wjob \in DOMAIN heap /\ heap[wjob].status = PROCESSING
  /\ ~InStore(wjob)
  /\ jobs /= <<>>

\* C12: jobs begin processing in submission order.  Ids are issued in
\* submission order, so: whenever a job has left QUEUED, every job submitted
\* before it has left QUEUED too or has been deleted.
C12_FifoStart ==
  \A a, b \in StoreIds :
    (a < b /\ heap[b].status /= QUEUED) => heap[a].status /= QUEUED

\* C12 witness: the second job submitted is PROCESSING in the executor and
\* the first one, still in the store, has finished.
C12_Witness ==
  \E a, b \in StoreIds :
    /\ a < b
    /\ Terminal(a)
    /\ heap[b].status = PROCESSING /\ wjob = b /\ backend.state = "running"

\* C13, its parts.  A step in which a job ends FAILED leaves the worker
\* waiting on the queue again:
BecomesFailed(id) ==
  /\ id \in DOMAIN heap /\ heap[id].status /= FAILED
  /\ id \in DOMAIN heap' /\ heap'[id].status = FAILED
C13_BackAtQueueAfterFailure ==
  (\E id \in JobIds : BecomesFailed(id)) => worker_task' = "at_get"
\* the worker task ends only by the cancellation that cleanup requested
C13_ExitsOnlyOnCancel ==
  /\ (worker_task /= "done" /\ worker_task' = "done")
       => cancel_requested /\ lifecycle = "cleaning"
  /\ (~cancel_requested /\ cancel_requested') => resp'.op = "cleanup"
\* with a FAILED job in the store, a job still QUEUED is taken up (or
\* deleted) unless the service is shut down first
C13_LaterJobsProcessed ==
  \A id \in JobIds :
    (/\ InStore(id) /\ heap[id].status = QUEUED
     /\ lifecycle = "initialized"
     /\ \E f \in StoreIds : heap[f].status = FAILED)
      ~> (\/ ~InStore(id)
          \/ heap[id].status /= QUEUED
          \/ lifecycle /= "initialized")

\* C13: a job ending FAILED (the backend raised, or the file was missing)
\* never ends the worker loop: the worker is back at the queue, later
\* queued jobs are still processed, and the loop exits only when shutdown
\* cancels it.
C13_FailureKeepsWorkerRunning ==
  /\ [][C13_BackAtQueueAfterFailure /\ C13_ExitsOnlyOnCancel]_vars
  /\ C13_LaterJobsProcessed

\* C13 witness: after the first job FAILED on a backend error, the worker
\* has gone on to complete the second one and waits on the queue.
C13_Witness ==
  /\ worker_task = "at_get" /\ ~cancel_requested
  /\ \E a, b \in StoreIds :
       /\ a < b
       /\ heap[a].status = FAILED /\ heap[a].error = "Corrupted audio file"
       /\ heap[b].status = COMPLETED

\* C14, its parts.  The worker resumes with an exception from the backend
\* call of a job that is still in the store:
ResumesRaised ==
  /\ worker_task = "at_executor" /\ worker_task' = "at_get"
  /\ backend.state = "raised"
  /\ InStore(wjob)
C14_EndsFailed ==
  ResumesRaised
    => /\ heap'[wjob].status = FAILED
       /\ heap'[wjob].error = backend.text
       /\ heap'[wjob].completed_at /= None
       /\ heap'[wjob].transcript = None
\* get_job_status on a FAILED job returns its error text, and no step
\* changes the error of a FAILED job that stays in the store
C14_ErrorRetrievable ==
  /\ (/\ resp'.op = "get_job_status"
      /\ Holds(jobs, resp'.id)
      /\ heap[resp'.id].status = FAILED)
       => /\ resp'.ret = FAILED
          /\ resp'.error = heap[resp'.id].error
          /\ resp'.error /= None
  /\ \A id \in JobIds :
       (InStore(id) /\ heap[id].status = FAILED /\ InStore(id)')
         => heap'[id].error = heap[id].error

\* C14 as stated: when the backend call of a job raises, the job ends
\* FAILED with error the failure description, completed_at set and no
\* transcript, its backing file is removed and file_path cleared, and the
\* error stays retrievable through get_job_status until the job is deleted.
C14_FailedJobLosesFile ==
  [][/\ C14_EndsFailed
     /\ ResumesRaised
          => PathOf(wjob) \notin files' /\ heap'[wjob].file_path = NoPath
     /\ C14_ErrorRetrievable]_vars

\* C14 amended: as stated, except that the backing file is removed and
\* file_path cleared only if the deletion succeeds; when it fails the file
\* stays on storage and file_path keeps naming it.
C14_FailedJobLosesFileUnlessUnlinkFails ==
  [][/\ C14_EndsFailed
     /\ ResumesRaised
          => \/ PathOf(wjob) \notin files' /\ heap'[wjob].file_path = NoPath
             \/ /\ PathOf(wjob) \in files /\ PathOf(wjob) \in files'
                /\ heap'[wjob].file_path = PathOf(wjob)
     /\ C14_ErrorRetrievable]_vars

\* C14 witness: get_job_status has returned the backend's error text for a
\* FAILED job whose file is gone and whose file_path is cleared.
C14_Witness ==
  /\ resp.op = "get_job_status" /\ resp.ret = FAILED
  /\ resp.error = "Corrupted audio file"
  /\ InStore(resp.id)
  /\ heap[resp.id].file_path = NoPath /\ PathOf(resp.id) \notin files
  /\ heap[resp.id].completed_at /= None

\* C15, its parts.  The worker resumes with the result of the backend call
\* of a job that is still in the store:
ResumesResult ==
  /\ worker_task = "at_executor" /\ worker_task' = "at_get"
  /\ backend.state = "result"
  /\ InStore(wjob)
C15_EndsCompleted ==
  ResumesResult
    => /\ heap'[wjob].status = COMPLETED
       /\ heap'[wjob].completed_at /= None
       /\ heap'[wjob].error = None

\* C15 as stated: when the backend call of a job returns, the job ends
\* COMPLETED with transcript equal to the returned text, completed_at set
\* and no error, its backing file is deleted and file_path cleared.
C15_CompletedWithReturnedText ==
  [][/\ C15_EndsCompleted
     /\ ResumesResult
          => /\ heap'[wjob].transcript = backend.text
             /\ PathOf(wjob) \notin files'
             /\ heap'[wjob].file_path = NoPath]_vars

\* C15 amended: the transcript is the returned text with leading and
\* trailing whitespace stripped, and the backing file is deleted and
\* file_path cleared only if the deletion succeeds; when it fails the file
\* stays on storage, file_path keeps naming it and the job is COMPLETED all
\* the same.
C15_CompletedWithStrippedText ==
  [][/\ C15_EndsCompleted
     /\ ResumesResult
          => /\ heap'[wjob].transcript = Strip(backend.text)
             /\ \/ /\ PathOf(wjob) \notin files'
                   /\ heap'[wjob].file_path = NoPath
                \/ /\ PathOf(wjob) \in files /\ PathOf(wjob) \in files'
                   /\ heap'[wjob].file_path = PathOf(wjob)]_vars

\* C15 witness: the worker has just written the result of a job: it is
\* COMPLETED with the stripped text, its file deleted, file_path cleared.
C15_Witness ==
  /\ resp = NoResp /\ worker_task = "at_get" /\ backend = BackendIdle
  /\ \E id \in StoreIds :
       /\ heap[id].status = COMPLETED
       /\ heap[id].transcript = "hello world"
       /\ heap[id].file_path = NoPath /\ PathOf(id) \notin files

\* C16 as stated: shutdown's cancellation of the worker is cooperative:
\* the worker task has ended, and cleanup has gone past awaiting it, only
\* once the backend call that was in flight has returned; no call is still
\* running in the executor after its worker has stopped.
C16_NoCallAbandoned ==
  (worker_task = "done" \/ lifecycle = "cleaned") => backend.state /= "running"

\* C17, its parts.  cleanup up to its await: the worker is cancelled and
\* no file is touched yet
C17_CancelBeforeFiles ==
  (resp'.op = "cleanup" /\ resp'.ret = "awaiting")
    => /\ worker_task \in {"at_get", "at_executor", "done"}
       /\ cancel_requested'
       /\ UNCHANGED files
\* cleanup returning: the worker task has ended (or was never started), and
\* every job in the store has lost its file, except those whose deletion
\* raised, which are logged and do not keep the others from being deleted
C17_FilesGoneOnReturn ==
  (resp'.op = "cleanup" /\ resp'.ret = "ok")
    => /\ worker_task \in {None, "done"} /\ worker_task' = worker_task
       /\ resp'.failed_files \subseteq files
       /\ \A id \in StoreIds :
            heap[id].file_path \in files'
              => heap[id].file_path \in resp'.failed_files
       /\ UNCHANGED <<jobs, heap>>

\* C17: shutdown cancels the worker and waits for it to end before it
\* deletes files; when cleanup returns the worker has ended and no job in
\* the store has a backing file left, given that each deletion succeeds; a
\* deletion that fails is logged and the remaining jobs are still cleaned.
C17_ShutdownOrder ==
  [][C17_CancelBeforeFiles /\ C17_FilesGoneOnReturn]_vars

\* C17 witness: cleanup has returned after the worker ended; one stored
\* job's deletion failed and was logged, the other job's file is gone.
C17_Witness ==
  /\ resp.op = "cleanup" /\ resp.ret = "ok"
  /\ worker_task = "done"
  /\ \E a, b \in StoreIds :
       /\ a < b
       /\ resp.failed_files = {heap[a].file_path}
       /\ heap[a].file_path \in files
       /\ heap[b].file_path /= NoPath /\ heap[b].file_path \notin files

\* C18: initialize loads the backend before it starts the worker: a worker
\* exists only with the backend loaded; while the backend is not loaded no
\* id has been taken off the queue, every job is still QUEUED and no
\* backend call has been made; and when loading fails initialize raises and
\* there is no worker, then or later.
C18_BackendBeforeWorker ==
  /\ worker_task /= None => whisper_model = "loaded"
  /\ whisper_model = None
       => /\ \A id \in StoreIds : heap[id].status = QUEUED
          /\ Len(processing_queue) = nextId - 1
          /\ backend = BackendIdle
  /\ (resp.op = "initialize" /\ resp.ret = "raised") => worker_task = None
  /\ lifecycle = "init_failed" => whisper_model = None

\* C18 witness: loading the backend failed, and the jobs submitted since
\* then sit on the queue, QUEUED, with no worker to take them.
C18_Witness ==
  /\ lifecycle = "init_failed"
  /\ Len(jobs) = MaxJobs /\ Len(processing_queue) = MaxJobs
  /\ worker_task = None

\* C19, its parts.  Every variable but the returned value:
state == <<jobs, heap, processing_queue, files, nextId, whisper_model,
           worker_task, wjob, cancel_requested, backend, lifecycle>>
\* get_job_status on an id that is not in the store returns None, the same
\* value whether the id was deleted or never submitted, and changes nothing
C19_NotFoundIsNone ==
  (resp'.op = "get_job_status" /\ ~Holds(jobs, resp'.id))
    => /\ resp' = Resp("get_job_status", resp'.id, None)
       /\ UNCHANGED state
\* the status endpoint answers 404 exactly for an id not in the store
C19_StatusEndpoint404 ==
  resp'.op = "GET /job/{job_id}/status"
    => IF Holds(jobs, resp'.id)
       THEN resp'.code = 200 /\ resp'.ret = heap[resp'.id].status
       ELSE /\ resp'.code = 404 /\ resp'.message = "Job not found"
            /\ UNCHANGED state
\* the delete endpoint answers 404 exactly for an id not in the store
C19_DeleteEndpoint404 ==
  resp'.op = "DELETE /job/{job_id}"
    => IF Holds(jobs, resp'.id)
       THEN resp'.code = 200 /\ ~Holds(jobs', resp'.id)
       ELSE /\ resp'.code = 404 /\ resp'.message = "Job not found"
            /\ UNCHANGED state

\* C19: not-found is a value: get_job_status on a never-submitted id and
\* on a deleted id return the same None, raise nothing and change no
\* state, and the HTTP status and delete endpoints answer 404 for it.
C19_NotFoundIsAValue ==
  [][C19_NotFoundIsNone /\ C19_StatusEndpoint404 /\ C19_DeleteEndpoint404]_vars

\* C19 witness: the status endpoint has answered 404 for a deleted id while
\* another id has not been submitted yet and a job is in the store.
C19_Witness ==
  /\ resp.op = "GET /job/{job_id}/status" /\ resp.code = 404
  /\ Issued(resp.id) /\ ~InStore(resp.id)
  /\ \E id \in JobIds : ~Issued(id)

WorkerStep == resp'.op = "none"
\* the job a worker step is working on: the one it dequeues or the one
\* whose backend call it resumes from
WorkedOn == IF worker_task = "at_executor" THEN wjob ELSE Head(processing_queue)
C21_WorkerKeepsStore ==
  WorkerStep
    => /\ jobs' = jobs
       /\ \A id \in StoreIds :
            heap'[id] /= heap[id]
              => /\ id = WorkedOn
                 /\ heap'[id].status /= heap[id].status
\* no step at all changes the identity fields of a job that stays stored
C21_IdentityFieldsFixed ==
  \A id \in StoreIds :
    InStore(id)'
      => /\ heap'[id].id = id /\ heap[id].id = id
         /\ heap'[id].user_id = heap[id].user_id
         /\ heap'[id].filename = heap[id].filename
         /\ heap'[id].created_at = heap[id].created_at

\* C21: the worker never adds a record to the store nor removes one; a
\* worker step changes at most the one job it is processing, and of that
\* job only status, timestamps, transcript, error and file_path; id,
\* user_id, filename and created_at of a job never change.
C21_WorkerOnlyMutatesItsJob ==
  [][C21_WorkerKeepsStore /\ C21_IdentityFieldsFixed]_vars

\* C21 witness: the worker has just finished the first of two stored jobs
\* as FAILED; the second is untouched, still QUEUED, with its file.
C21_Witness ==
  /\ resp = NoResp /\ worker_task = "at_get"
  /\ Len(jobs) = 2
  /\ heap[jobs[1]].status = FAILED
  /\ heap[jobs[2]] = TranscriptionJob(jobs[2], "u1", "A.WAV")
  /\ PathOf(jobs[2]) \in files

\* C22, its parts.  A backend call starts only for a job that was QUEUED
\* and thereby becomes PROCESSING:
StartsBackendCall == backend.state /= "running" /\ backend'.state = "running"
C22_CallOnlyForQueued ==
  StartsBackendCall
    => /\ InStore(wjob')
       /\ heap[wjob'].status = QUEUED
       /\ heap'[wjob'].status = PROCESSING
\* a job never returns to QUEUED and never leaves COMPLETED or FAILED
C22_NoWayBack ==
  \A id \in StoreIds :
    InStore(id)'
      => /\ heap[id].status /= QUEUED => heap'[id].status /= QUEUED
         /\ Terminal(id) => heap'[id].status = heap[id].status
\* the worker taking the id of a stored job that is not QUEUED skips it
C22_NonQueuedSkipped ==
  (/\ Len(processing_queue') < Len(processing_queue)
   /\ InStore(Head(processing_queue))
   /\ heap[Head(processing_queue)].status /= QUEUED)
    => /\ worker_task' = "at_get"
       /\ UNCHANGED <<jobs, heap, files, backend, wjob>>
\* the id of a job that has left QUEUED is no longer on the queue, and no
\* id is on the queue twice
C22_DequeuedOnce ==
  /\ \A id \in StoreIds : heap[id].status /= QUEUED => id \notin QueueIds
  /\ Cardinality(QueueIds) = Len(processing_queue)

UnlinkFailsAfterSuccess == ResumesResult /\ PathOf(wjob) \in files'
C23_Swallowed ==
  UnlinkFailsAfterSuccess
    => /\ heap'[wjob].status = COMPLETED
       /\ heap'[wjob].transcript = Strip(backend.text)
       /\ heap'[wjob].error = None
       /\ worker_task' = "at_get" /\ ~cancel_requested'
\* a COMPLETED job stays COMPLETED with its transcript and without error
C23_StaysCompleted ==
  \A id \in StoreIds :
    (heap[id].status = COMPLETED /\ InStore(id)')
      => /\ heap'[id].status = COMPLETED
         /\ heap'[id].transcript = heap[id].transcript
         /\ heap'[id].error = None

\* C23: when the deletion of the backing file fails after a successful
\* transcription, the job is COMPLETED with its transcript and stays so,
\* never FAILED and without error text, and the worker is back at the
\* queue for the next job.
C23_CleanupFailureSwallowed ==
  [][C23_Swallowed /\ C23_StaysCompleted]_vars

\* C23 witness: the first job is COMPLETED with its file still on storage,
\* and the worker has gone on to complete the second job.
C23_Witness ==
  \E a, b \in StoreIds :
    /\ a < b
    /\ heap[a].status = COMPLETED /\ heap[a].transcript = "hello world"
    /\ heap[a].file_path = PathOf(a) /\ PathOf(a) \in files
    /\ heap[b].status = COMPLETED

\* C24, its parts.  The jobs in the store that are PROCESSING:
Processing == {id \in StoreIds : heap[id].status = PROCESSING}
\* at most one of them; while the worker lives it is the job the worker
\* holds; a call is in flight only for a worker suspended on it or for one
\* that was cancelled there
C24_OneProcessing ==
  /\ Cardinality(Processing) <= 1
  /\ worker_task \in {"at_get", "at_executor"} => Processing \subseteq {wjob}
  /\ worker_task = "at_executor" <=> wjob /= 0
  /\ backend.state /= "idle" => worker_task \in {"at_executor", "done"}
\* the worker takes no id off the queue while a call is in flight or its
\* outcome is waiting to be written
C24_NoDequeueDuringCall ==
  Len(processing_queue') < Len(processing_queue) => backend = BackendIdle

\* C24: jobs are executed one at a time: at most one backend call is in
\* flight and at most one stored job is PROCESSING, in every reachable
\* state, whatever submits, deletes and shutdown are interleaved.
C24_OneAtATime ==
  [][C24_OneProcessing /\ C24_OneProcessing' /\ C24_NoDequeueDuringCall]_vars

\* C24 witness: a backend call is in flight for the one PROCESSING job
\* while the next job waits at the head of the queue, QUEUED.
C24_Witness ==
  /\ backend.state = "running" /\ worker_task = "at_executor"
  /\ Processing = {wjob}
  /\ processing_queue /= <<>>
  /\ InStore(Head(processing_queue))
  /\ heap[Head(processing_queue)].status = QUEUED

\* C25, its parts.  While a backend call is in flight each facade call can
\* be made, for every id; a valid submit can, while ids are left to issue
C25_CallsEnabled ==
  backend.state = "running"
    => /\ \A id \in JobIds :
            /\ ENABLED get_job_status(id)
            /\ ENABLED delete_job(id, TRUE)
       /\ ENABLED list_jobs
       /\ nextId <= MaxJobs
            => ENABLED create_job(max_file_size_mb * BytesPerMb, "u1", "A.WAV",
                                  "ok", TRUE)
\* a facade call made during the backend call returns while the call is
\* still in flight
C25_ReturnsDuringCall ==
  (backend.state = "running"
   /\ resp'.op \in {"create_job", "get_job_status", "delete_job", "list_jobs"})
    => backend' = backend /\ worker_task' = worker_task
\* a job submitted during the backend call is stored QUEUED and enqueued
C25_SubmitDuringCall ==
  (backend.state = "running" /\ resp'.op = "create_job" /\ resp'.ret = "job_id")
    => /\ ~InStore(resp'.id)
       /\ jobs' = Append(jobs, resp'.id)
       /\ heap'[resp'.id].status = QUEUED
       /\ processing_queue' = Append(processing_queue, resp'.id)

\* C25: while a backend call is in flight, submit, get_status, delete and
\* list can still be called and return without waiting for the call; a job
\* submitted meanwhile is stored QUEUED and enqueued.
C25_IntakeResponsive ==
  [][C25_CallsEnabled /\ C25_ReturnsDuringCall /\ C25_SubmitDuringCall]_vars

\* C25 witness: create_job has returned the id of a new QUEUED job while
\* the backend call of the previous job is still running.
C25_Witness ==
  /\ resp.op = "create_job" /\ resp.ret = "job_id"
  /\ backend.state = "running" /\ wjob /= 0 /\ wjob /= resp.id
  /\ heap[resp.id].status = QUEUED
  /\ processing_queue = <<resp.id>>

\* C26, its parts.  The cancellation reaches the worker at the await of the
\* backend call of a stored job: the job is left exactly as it was
CancelledInCall ==
  worker_task = "at_executor" /\ worker_task' = "done" /\ InStore(wjob)
C26_CancelLeavesJob ==
  CancelledInCall
    => /\ heap'[wjob] = heap[wjob]
       /\ heap[wjob].status = PROCESSING
\* once the worker has ended no step changes a job record, the return of
\* the abandoned backend call included
C26_NoWriteAfterWorker ==
  worker_task = "done"
    => \A id \in StoreIds : InStore(id)' => heap'[id] = heap[id]
\* a PROCESSING job has no completed_at, no transcript and no error
C26_ProcessingIsBare ==
  \A id \in StoreIds :
    heap[id].status = PROCESSING
      => /\ heap[id].completed_at = None
         /\ heap[id].transcript = None
         /\ heap[id].error = None

\* C26: when shutdown cancels the worker during a job's backend call, the
\* job is not marked FAILED or COMPLETED: it keeps status PROCESSING, with
\* no completed_at, transcript or error, in every later state, and the
\* return of the abandoned call changes no job record.
C26_CancelIsNotFailure ==
  [][/\ C26_CancelLeavesJob
     /\ C26_NoWriteAfterWorker
     /\ C26_ProcessingIsBare /\ C26_ProcessingIsBare']_vars

\* C26 witness: shutdown is over and the abandoned call has returned; the
\* job it was for is still PROCESSING, its file deleted by cleanup.
C26_Witness ==
  /\ lifecycle = "cleaned" /\ worker_task = "done" /\ backend = BackendIdle
  /\ \E id \in StoreIds :
       /\ heap[id].status = PROCESSING /\ heap[id].completed_at = None
       /\ PathOf(id) \notin files

\* C27, its parts.  The worker holds a job that was deleted during its
\* backend call:
HoldsDeleted == worker_task = "at_executor" /\ ~InStore(wjob)
\* a job leaves QUEUED only by a worker that waits on the queue with no
\* backend call in flight and no outcome waiting to be written
C27_StartNeedsFreeWorker ==
  (\E id \in StoreIds :
     InStore(id)' /\ heap[id].status = QUEUED /\ heap'[id].status /= QUEUED)
    => worker_task = "at_get" /\ backend = BackendIdle
\* the worker holding a deleted job gets back to the queue only with the
\* call's outcome, and until then no stored job changes status
C27_HeldUntilReturn ==
  HoldsDeleted
    => /\ worker_task' = "at_get" => backend.state \in {"result", "raised"}
       /\ \A id \in StoreIds :
            InStore(id)' => heap'[id].status = heap[id].status
\* once the call has returned the waiting job is taken up (or deleted),
\* unless the service is shut down first
C27_NextJobFollows ==
  \A id \in JobIds :
    (/\ HoldsDeleted /\ lifecycle = "initialized"
     /\ InStore(id) /\ heap[id].status = QUEUED)
      ~> (\/ ~InStore(id)
          \/ heap[id].status /= QUEUED
          \/ lifecycle /= "initialized")

\* C27: deleting a PROCESSING job does not free the worker: no other job
\* goes from QUEUED to PROCESSING until the deleted job's backend call has
\* returned, and then the worker goes on with the next queued id.
C27_DeleteDoesNotFreeWorker ==
  /\ [][C27_StartNeedsFreeWorker /\ C27_HeldUntilReturn]_vars
  /\ C27_NextJobFollows

\* C27 witness: the backend call of a deleted job is still running while
\* the next job waits at the head of the queue, QUEUED.
C27_Witness ==
  /\ HoldsDeleted /\ backend.state = "running" /\ ~cancel_requested
  /\ processing_queue /= <<>>
  /\ InStore(Head(processing_queue))
  /\ heap[Head(processing_queue)].status = QUEUED

\* C28, its parts.  No worker is running: before initialize, after a
\* failed initialize, or after shutdown
NoWorker == worker_task \in {None, "done"}
\* a valid submit whose file is written can be made then and succeeds
C28_SubmitSucceeds ==
  (NoWorker /\ nextId <= MaxJobs)
    => ENABLED (/\ create_job(max_file_size_mb * BytesPerMb, "u1", "A.WAV",
                              "ok", TRUE)
                /\ resp'.ret = "job_id")
\* and it writes the file, stores the job QUEUED and enqueues its id
C28_SubmitStores ==
  (NoWorker /\ resp'.op = "create_job" /\ resp'.ret = "job_id")
    => /\ jobs' = Append(jobs, resp'.id)
       /\ heap'[resp'.id] = TranscriptionJob(resp'.id, resp'.user_id,
                                             resp'.filename)
       /\ processing_queue' = Append(processing_queue, resp'.id)
       /\ FilePath(resp'.id, resp'.filename) \in files'
\* after shutdown a QUEUED job stays as it is, and its file stays, for as
\* long as the job is in the store
C28_StaysQueuedAfterShutdown ==
  lifecycle = "cleaned"
    => \A id \in StoreIds :
         (heap[id].status = QUEUED /\ InStore(id)')
           => /\ heap'[id] = heap[id]
              /\ PathOf(id) \in files => PathOf(id) \in files'

C29_NullPathMeansNoFile ==
  \A id \in StoreIds : heap[id].file_path = NoPath => PathOf(id) \notin files
\* file_path goes from set to null only in a worker step that removes the
\* file, and a null file_path stays null
C29_ClearedWithFile ==
  \A id \in StoreIds :
    InStore(id)'
      => /\ (heap[id].file_path /= NoPath /\ heap'[id].file_path = NoPath)
              => /\ WorkerStep
                 /\ heap[id].file_path \in files
                 /\ heap[id].file_path \notin files'
         /\ heap[id].file_path = NoPath => heap'[id].file_path = NoPath

\* C29: no job loses track of a file that still exists: a stored job with
\* a null file_path has no backing file on storage; file_path is cleared
\* only in the worker step that deleted the file, and never set again.
C29_NoLostFile ==
  [][/\ C29_NullPathMeansNoFile /\ C29_NullPathMeansNoFile'
     /\ C29_ClearedWithFile]_vars

\* C29 witness: one stored job has lost its file and its file_path
\* together, another has kept both because the deletion failed.
C29_Witness ==
  \E a, b \in StoreIds :
    /\ Terminal(a) /\ heap[a].file_path = NoPath /\ PathOf(a) \notin files
    /\ Terminal(b) /\ heap[b].file_path = PathOf(b) /\ PathOf(b) \in files

\* C30: when deleting the backing file raises, delete_job logs it, still
\* removes the job from the store and returns True: the file stays on
\* storage and no record in the store refers to it.
C30_DeleteDespiteUnlinkFailure ==
  [][(resp'.op = "delete_job" /\ resp'.log = "Failed to delete file")
       => /\ resp'.ret = "True"
          /\ Holds(jobs, resp'.id) /\ ~Holds(jobs', resp'.id)
          /\ heap[resp'.id].file_path \in files
          /\ heap[resp'.id].file_path \in files'
          /\ \A id \in JobIds :
               Holds(jobs', id)
                 => heap'[id].file_path /= heap[resp'.id].file_path]_vars

\* C30 witness: delete_job has returned True after a failed file deletion:
\* the id is gone from the store, its file is on storage, and another job
\* is still stored.
C30_Witness ==
  /\ resp.op = "delete_job" /\ resp.ret = "True"
  /\ resp.log = "Failed to delete file"
  /\ ~InStore(resp.id)
  /\ \E filename \in Filenames : FilePath(resp.id, filename) \in files
  /\ jobs /= <<>>

====
